---- MODULE Spec2Model ----
(***************************************************************************)
(* Check-Meta (src/src/App.tsx): the metadata normalizers (formatBytes,    *)
(* formatDuration, getResolutionLabel, getDetailedCodec), the record       *)
(* assembly inside analyzeVideo, and the App component's display state     *)
(* (metadata, error, isAnalyzing, isDragging) under overlapping            *)
(* analyzeVideo invocations.                                               *)
(*                                                                         *)
(* Representation.                                                         *)
(*  - A JavaScript string is a sequence of UTF-16 code units; a code unit  *)
(*    is written as a one-character TLA+ string, a non-ASCII one as        *)
(*    "U+XXXX".                                                            *)
(*  - A JavaScript number is a record [nan, neg, int, frac]: the value     *)
(*    (-1)^neg * (int + frac/1000), or NaN.  Numbers with more than three  *)
(*    fractional digits and exponent notation are outside the model.       *)
(*  - A field value of a track is undefined, a string or a number.         *)
(*  - A file size is [e, hi, lo]: the byte count hi*1024^e + lo*1024^(e-1) *)
(*    (two base-1024 digits), so that sizes beyond 2^31 stay representable.*)
(***************************************************************************)
EXTENDS Integers, Sequences, FiniteSets, TLC

\* isDragging, metadata, isAnalyzing, error: the component's state (lines 109-112);
\* calls: the analyzeVideo invocations started so far;
\* fn, arg, ret: for a normalizer applied on its own, whether it has returned
\* ("idle" before), its argument and its result.
VARIABLES isDragging, metadata, isAnalyzing, error, calls, fn, arg, ret

vars == <<isDragging, metadata, isAnalyzing, error, calls, fn, arg, ret>>
uiVars == <<isDragging, metadata, isAnalyzing, error, calls>>

(***************************************************************************)
(* Bounds of the model.                                                    *)
(***************************************************************************)
MaxAnalyses == 3
MaxHours == 3
MaxExp == 5
MaxTracks == 3

(***************************************************************************)
(* Strings.                                                                *)
(***************************************************************************)
Digits == <<"0","1","2","3","4","5","6","7","8","9">>

IsDigit(c) == \E d \in 1..10 : Digits[d] = c

DigitVal(c) == (CHOOSE d \in 1..10 : Digits[d] = c) - 1

RECURSIVE NatToStr(_)
NatToStr(n) ==
  IF n < 10 THEN <<Digits[n + 1]>>
  ELSE NatToStr(n \div 10) \o <<Digits[(n % 10) + 1]>>

RECURSIVE DigitsToNat(_)
DigitsToNat(s) ==
  IF s = <<>> THEN 0
  ELSE 10 * DigitsToNat(SubSeq(s, 1, Len(s) - 1)) + DigitVal(s[Len(s)])

\* String.prototype.includes
Includes(s, sub) ==
  \E i \in 1..(Len(s) - Len(sub) + 1) : SubSeq(s, i, i + Len(sub) - 1) = sub

\* s.split(sep)[0] for a one-unit separator
SplitFirst(s, sep) ==
  IF \E i \in 1..Len(s) : s[i] = sep
  THEN SubSeq(s, 1, (CHOOSE i \in 1..Len(s) :
                       s[i] = sep /\ \A j \in 1..(i - 1) : s[j] # sep) - 1)
  ELSE s

\* the number of leading units of s, from position i on, that are digits
RECURSIVE DigitRun(_, _)
DigitRun(s, i) ==
  IF i <= Len(s) /\ IsDigit(s[i]) THEN 1 + DigitRun(s, i + 1) ELSE 0

RECURSIVE SkipSpaces(_)
SkipSpaces(s) == IF s # <<>> /\ s[1] = " " THEN SkipSpaces(Tail(s)) ELSE s

Unknown == <<"U+4E0D","U+660E">>

(***************************************************************************)
(* Numbers and field values.                                               *)
(***************************************************************************)
NaN == [nan |-> TRUE, neg |-> FALSE, int |-> 0, frac |-> 0]

Num(neg, int, frac) ==
  [nan |-> FALSE, neg |-> neg /\ (int # 0 \/ frac # 0), int |-> int, frac |-> frac]

IsZero(n) == ~n.nan /\ n.int = 0 /\ n.frac = 0

\* num > 0
Positive(n) == ~n.nan /\ ~n.neg /\ ~IsZero(n)

\* Math.floor(num) for a non-negative num
Floor(n) == n.int

\* Math.trunc, what parseInt keeps of a number's decimal form
Trunc(n) == IF n.nan THEN NaN ELSE Num(n.neg, n.int, 0)

Undef == [kind |-> "undef", s |-> <<>>, n |-> NaN]

Str(s) == [kind |-> "str", s |-> s, n |-> NaN]

NumV(n) == [kind |-> "num", s |-> <<>>, n |-> n]

NumI(i) == NumV(Num(FALSE, i, 0))

\* ToBoolean
Truthy(v) ==
  CASE v.kind = "undef" -> FALSE
    [] v.kind = "str" -> v.s # <<>>
    [] v.kind = "num" -> ~v.n.nan /\ ~IsZero(v.n)

\* a || b
Or(a, b) == IF Truthy(a) THEN a ELSE b

\* a ?? b
Coalesce(a, b) == IF a.kind = "undef" THEN b ELSE a

\* the decimal digits of a fraction in thousandths, trailing zeros dropped
FracStr(f) ==
  IF f % 100 = 0 THEN <<Digits[(f \div 100) + 1]>>
  ELSE IF f % 10 = 0 THEN <<Digits[(f \div 100) + 1], Digits[((f \div 10) % 10) + 1]>>
  ELSE <<Digits[(f \div 100) + 1], Digits[((f \div 10) % 10) + 1], Digits[(f % 10) + 1]>>

\* Number.prototype.toString
NumToStr(n) ==
  IF n.nan THEN <<"N","a","N">>
  ELSE (IF n.neg THEN <<"-">> ELSE <<>>) \o NatToStr(n.int)
       \o (IF n.frac = 0 THEN <<>> ELSE <<".">> \o FracStr(n.frac))

\* ToString of a field value
ToStr(v) ==
  CASE v.kind = "undef" -> <<"u","n","d","e","f","i","n","e","d">>
    [] v.kind = "str" -> v.s
    [] v.kind = "num" -> NumToStr(v.n)

\* a fraction's first three digits as thousandths
FracVal(ds) ==
  LET d(i) == IF i <= Len(ds) THEN DigitVal(ds[i]) ELSE 0
  IN  100 * d(1) + 10 * d(2) + d(3)

\* the StrDecimalLiteral prefix parseFloat reads: [ws] [sign] digits [. digits]
ParseFloatStr(str) ==
  LET s0 == SkipSpaces(str)
      signed == s0 # <<>> /\ s0[1] \in {"-", "+"}
      neg == s0 # <<>> /\ s0[1] = "-"
      s == IF signed THEN Tail(s0) ELSE s0
      ni == DigitRun(s, 1)
      dot == ni < Len(s) /\ s[ni + 1] = "."
      nf == IF dot THEN DigitRun(s, ni + 2) ELSE 0
  IN  IF ni = 0 /\ nf = 0 THEN NaN
      ELSE Num(neg, DigitsToNat(SubSeq(s, 1, ni)),
               FracVal(SubSeq(s, ni + 2, ni + 1 + nf)))

\* parseFloat(value)
ParseFloat(v) == IF v.kind = "num" THEN v.n ELSE ParseFloatStr(ToStr(v))

\* parseInt(string): [ws] [sign] digits
ParseIntStr(str) ==
  LET s0 == SkipSpaces(str)
      signed == s0 # <<>> /\ s0[1] \in {"-", "+"}
      neg == s0 # <<>> /\ s0[1] = "-"
      s == IF signed THEN Tail(s0) ELSE s0
      ni == DigitRun(s, 1)
  IN  IF ni = 0 THEN NaN ELSE Num(neg, DigitsToNat(SubSeq(s, 1, ni)), 0)

\* parseInt(value)
ParseInt(v) == IF v.kind = "num" THEN Trunc(v.n) ELSE ParseIntStr(ToStr(v))

(***************************************************************************)
(* formatBytes                                                             *)
(***************************************************************************)
k == 1024

sizes ==
  << <<"B","y","t","e","s">>, <<"K","B">>, <<"M","B">>, <<"G","B">>, <<"T","B">> >>

\* sizes[i] in a string concatenation; an index past the array reads undefined
SizesAt(i) ==
  IF i + 1 \in DOMAIN sizes THEN sizes[i + 1]
  ELSE <<"u","n","d","e","f","i","n","e","d">>

ZeroBytes == [e |-> 0, hi |-> 0, lo |-> 0]

\* Math.floor(Math.log(bytes) / Math.log(k)): the index of the leading base-k
\* digit (the logarithms' rounding error, which matters only just below a power
\* of k, is outside the model)
LogFloor(bytes) == bytes.e

\* (bytes / Math.pow(k, i)).toFixed(2), in hundredths (ties round up)
ScaledHundredths(bytes) ==
  IF bytes.e = 0 THEN bytes.hi * 100
  ELSE ((bytes.hi * k + bytes.lo) * 100 + (k \div 2)) \div k

\* the decimal string of c hundredths with two fraction digits
ToFixed2(c) ==
  NatToStr(c \div 100) \o <<".", Digits[((c \div 10) % 10) + 1], Digits[(c % 10) + 1]>>

formatBytes(bytes) ==
  IF bytes = ZeroBytes THEN <<"0"," ","B","y","t","e","s">>
  ELSE LET i == LogFloor(bytes)
       IN  NumToStr(ParseFloatStr(ToFixed2(ScaledHundredths(bytes))))
             \o <<" ">> \o SizesAt(i)

(***************************************************************************)
(* formatDuration                                                          *)
(***************************************************************************)
Pad2(n) == IF n < 10 THEN <<"0">> \o NatToStr(n) ELSE NatToStr(n)

\* TotalSeconds without the whole-seconds reinterpretation of lines 46-48
TotalSeconds_Mut(num) == Floor(num) \div 1000

\* lines 42-48: milliseconds by default, whole seconds when that floors to 0
TotalSeconds(num) ==
  LET totalSeconds == Floor(num) \div 1000
  IN  IF totalSeconds = 0 /\ Positive(num) THEN Floor(num) ELSE totalSeconds

\* lines 50-58
RenderDuration(totalSeconds) ==
  LET seconds == totalSeconds % 60
      minutes == (totalSeconds \div 60) % 60
      hours == totalSeconds \div 3600
      h == IF hours > 0 THEN NatToStr(hours) \o <<":">> ELSE <<>>
      m == IF hours > 0
           THEN (IF minutes < 10 THEN <<"0">> \o NatToStr(minutes) \o <<":">>
                 ELSE NatToStr(minutes) \o <<":">>)
           ELSE NatToStr(minutes) \o <<":">>
      s == IF seconds < 10 THEN <<"0">> \o NatToStr(seconds) ELSE NatToStr(seconds)
  IN  h \o m \o s

formatDuration(value, durationStr3) ==
  IF Truthy(durationStr3) /\ Includes(durationStr3.s, <<":">>)
  THEN SplitFirst(durationStr3.s, ".")
  ELSE IF ~Truthy(value) THEN Unknown
  ELSE LET num == ParseFloat(value)
       IN  IF num.nan \/ ~Positive(num) THEN Unknown
           ELSE RenderDuration(TotalSeconds(num))

(***************************************************************************)
(* getResolutionLabel                                                      *)
(***************************************************************************)
\* a >= t for an integer threshold t > 0
AtLeast(a, t) == ~a.nan /\ ~a.neg /\ a.int >= t

\* |a| < |b|
MagLess(a, b) == a.int < b.int \/ (a.int = b.int /\ a.frac < b.frac)

\* a < b for two numbers, neither NaN
Less(a, b) ==
  IF a.neg # b.neg THEN a.neg
  ELSE IF a.neg THEN MagLess(b, a) ELSE MagLess(a, b)

\* Math.max(a, b)
Max2(a, b) == IF Less(a, b) THEN b ELSE a

getResolutionLabel(width, height) ==
  LET max == Max2(width, height)
  IN  IF AtLeast(max, 3840) THEN <<"4","K">>
      ELSE IF AtLeast(max, 2560) THEN <<"2","K">>
      ELSE IF AtLeast(max, 1920) THEN <<"F","u","l","l","H","D">>
      ELSE IF AtLeast(max, 1280) THEN <<"H","D">>
      ELSE <<"S","D">>

(***************************************************************************)
(* Tracks and probe results.                                               *)
(***************************************************************************)
\* A track is its @type and its fields, a function from the names of the fields
\* it holds (Width, Height, Duration, Duration_String3, BitRate, BitRate_Mode,
\* OverallBitRate, OverallBitRate_Mode, FrameRate, FrameRate_Nominal, Format,
\* Format_Information, Format_Profile, CodecID) to their values.

\* a track of the given @type holding the given fields, every other field absent
Track(type, given) == [type |-> type, fields |-> given]

\* what Array.prototype.find returns when nothing matches (undefined)
NoTrack == [type |-> "undefined", fields |-> [f \in {} |-> 0]]

\* whether a variable holding find's result is truthy
Found(track) == track.type # "undefined"

\* track?.[name]
Get(track, name) ==
  IF name \in DOMAIN track.fields THEN track.fields[name] ELSE Undef

\* result.media?.track.find((t) => t['@type'] === type)
Find(result, type) ==
  IF ~result.media THEN NoTrack
  ELSE IF \E i \in 1..Len(result.track) : result.track[i].type = type
  THEN result.track[CHOOSE i \in 1..Len(result.track) :
                      /\ result.track[i].type = type
                      /\ \A j \in 1..(i - 1) : result.track[j].type # type]
  ELSE NoTrack

(***************************************************************************)
(* getDetailedCodec                                                        *)
(***************************************************************************)
AVC == <<"A","V","C">>
HEVC == <<"H","E","V","C">>
MPEG4Visual == <<"M","P","E","G","-","4"," ","V","i","s","u","a","l">>
AAC == <<"A","A","C">>
Base == <<"B","a","s","e">>
Main == <<"M","a","i","n">>
AdvancedVideoCoding ==
  <<"A","d","v","a","n","c","e","d"," ","V","i","d","e","o"," ","C","o","d","i","n","g">>
H264 == <<"H",".","2","6","4">>
HighEfficiencyVideoCoding ==
  <<"H","i","g","h"," ","E","f","f","i","c","i","e","n","c","y"," ",
    "V","i","d","e","o"," ","C","o","d","i","n","g">>
H265 == <<"H",".","2","6","5">>
MPEG4Part2 == <<"M","P","E","G","-","4"," ","P","a","r","t"," ","2">>
Visual == <<"V","i","s","u","a","l">>
AdvancedAudioCoding ==
  <<"A","d","v","a","n","c","e","d"," ","A","u","d","i","o"," ","C","o","d","i","n","g">>
MPEG4AAC == <<"M","P","E","G","-","4"," ","A","A","C">>

\* lines 77-94: <<isoName, ituName>>
CodecNames(format, info) ==
  LET video == IF format = AVC THEN <<AdvancedVideoCoding, H264>>
               ELSE IF format = HEVC THEN <<HighEfficiencyVideoCoding, H265>>
               ELSE IF format = MPEG4Visual THEN <<MPEG4Part2, Visual>>
               ELSE <<(IF info # <<>> THEN info ELSE format), format>>
  IN  IF format = AAC THEN <<AdvancedAudioCoding, MPEG4AAC>> ELSE video

\* lines 96-99
ComposeCodec(isoName, ituName) ==
  IF ituName # <<>> /\ ituName # isoName
  THEN isoName \o <<"U+FF08">> \o ituName \o <<"U+FF09">>
  ELSE isoName

\* WithProfile without the test that the profile already occurs in the name
WithProfile_Mut(result, profile) ==
  IF profile # <<>> /\ profile # Base /\ profile # Main
  THEN result \o <<" ", "[">> \o profile \o <<"]">>
  ELSE result

\* lines 101-103
WithProfile(result, profile) ==
  IF profile # <<>> /\ profile # Base /\ profile # Main /\ ~Includes(result, profile)
  THEN result \o <<" ", "[">> \o profile \o <<"]">>
  ELSE result

getDetailedCodec(track) ==
  IF ~Found(track) THEN Unknown
  ELSE LET format == ToStr(Or(Get(track, "Format"), Str(<<>>)))
           info == ToStr(Or(Get(track, "Format_Information"), Str(<<>>)))
           profile == ToStr(Or(Get(track, "Format_Profile"), Str(<<>>)))
           names == CodecNames(format, info)
           result == WithProfile(ComposeCodec(names[1], names[2]), profile)
       IN  IF result # <<>> THEN result
           ELSE ToStr(Or(Get(track, "CodecID"), Str(Unknown)))

(***************************************************************************)
(* analyzeVideo, lines 133-168: track selection and record assembly.       *)
(***************************************************************************)
\* new Date(file.lastModified).toLocaleString('ja-JP'), the timestamp given as
\* its local calendar fields
DateString(d) ==
  NatToStr(d.year) \o <<"/">> \o NatToStr(d.month) \o <<"/">> \o NatToStr(d.day)
    \o <<" ">> \o NatToStr(d.hour) \o <<":">> \o Pad2(d.minute) \o <<":">> \o Pad2(d.second)

\* line 145-147: the positive parseFloat(t.Duration) of the tracks, in track order
RECURSIVE Durations(_)
Durations(tracks) ==
  IF tracks = <<>> THEN <<>>
  ELSE LET d == ParseFloat(Get(Head(tracks), "Duration"))
       IN  (IF ~d.nan /\ Positive(d) THEN <<d>> ELSE <<>>) \o Durations(Tail(tracks))

\* Math.max(...durations) of a non-empty list
RECURSIVE MaxOf(_)
MaxOf(ds) ==
  IF Len(ds) = 1 THEN ds[1] ELSE Max2(ds[1], MaxOf(Tail(ds)))

\* line 149
RawDuration(result, general, video, audio) ==
  LET durations == Durations(result.track)
  IN  Or(Or(Or(Get(general, "Duration"), Get(video, "Duration")), Get(audio, "Duration")),
         IF Len(durations) > 0 THEN NumV(MaxOf(durations)) ELSE NumI(0))

\* `${(parseInt(x) / 1000000).toFixed(2)} Mbps`
MbpsString(x) ==
  LET b == ParseInt(x)
      c == (b.int + 5000) \div 10000
  IN  (IF b.nan THEN <<"N","a","N">>
       ELSE (IF b.neg THEN <<"-">> ELSE <<>>) \o ToFixed2(c))
      \o <<" ","M","b","p","s">>

\* line 138-139, 155-156
Resolution(video) ==
  LET width == IF Found(video) THEN ParseInt(Get(video, "Width")) ELSE Num(FALSE, 0, 0)
      height == IF Found(video) THEN ParseInt(Get(video, "Height")) ELSE Num(FALSE, 0, 0)
      both == Truthy(NumV(width)) /\ Truthy(NumV(height))
  IN  [resolution |-> IF both
                      THEN NumToStr(width) \o <<" ","x"," ">> \o NumToStr(height)
                      ELSE Unknown,
       resolutionLabel |-> IF both THEN getResolutionLabel(width, height) ELSE Unknown]

\* line 157
BitRate(video, general) ==
  IF Truthy(Get(video, "BitRate")) THEN MbpsString(Get(video, "BitRate"))
  ELSE IF Truthy(Get(general, "OverallBitRate"))
  THEN MbpsString(Get(general, "OverallBitRate"))
  ELSE Unknown

\* line 159
FrameRate(video) ==
  IF Found(video)
  THEN ToStr(Coalesce(Coalesce(Get(video, "FrameRate"), Get(video, "FrameRate_Nominal")),
                      Str(Unknown))) \o <<" ","f","p","s">>
  ELSE Unknown

\* HasMediaTrack requiring a Video track
HasMediaTrack_Mut(video, general) == Found(video)

\* line 137: the condition under which a record is assembled
HasMediaTrack(video, general) == Found(video) \/ Found(general)

\* lines 133-168: <<"metadata", record>> (setMetadata) or <<"error", kind>> (setError)
Assemble(file, result) ==
  LET general == Find(result, "General")
      video == Find(result, "Video")
      audio == Find(result, "Audio")
  IN  IF HasMediaTrack(video, general)
      THEN LET ds3 == Or(Or(Get(general, "Duration_String3"), Get(video, "Duration_String3")),
                         Get(audio, "Duration_String3"))
               rawDuration == RawDuration(result, general, video, audio)
               res == Resolution(video)
           IN  <<"metadata",
                 [name |-> file.name,
                  updatedDate |-> DateString(file.lastModified),
                  size |-> formatBytes(file.size),
                  resolution |-> res.resolution,
                  resolutionLabel |-> res.resolutionLabel,
                  bitRate |-> BitRate(video, general),
                  bitRateMode |-> ToStr(Or(Or(Get(video, "BitRate_Mode"),
                                             Get(general, "OverallBitRate_Mode")),
                                          Str(Unknown))),
                  frameRate |-> FrameRate(video),
                  duration |-> formatDuration(rawDuration, ds3),
                  container |-> ToStr(Or(Get(general, "Format"), Str(Unknown))),
                  videoCodec |-> getDetailedCodec(video),
                  audioCodec |-> getDetailedCodec(audio)]>>
      ELSE <<"error", "NoMediaTrack">>

(***************************************************************************)
(* Inputs.                                                                 *)
(***************************************************************************)
ByteCounts ==
  {ZeroBytes}
    \cup {[e |-> 0, hi |-> h, lo |-> 0] : h \in {1, 2, 9, 10, 100, 512, 1000, 1023}}
    \cup {[e |-> e, hi |-> h, lo |-> l] :
            e \in 1..MaxExp, h \in {1, 2, 9, 10, 100, 512, 1000, 1023},
            l \in {0, 1, 5, 512, 1018, 1019, 1023}}

DurationInts ==
  {h * 3600000 + m * 60000 + s * 1000 + ms :
     h \in 0..MaxHours, m \in {0, 1, 2, 3, 9, 10, 59}, s \in {0, 1, 9, 10, 15, 20, 59},
     ms \in {0, 1, 45, 999}}

DsColon == <<"0","0",":","0","2",":","1","5",".","5","0","0">>
DsColon2 == <<"0","1",":","0","2",":","0","3",".","2","5","0">>
DsPlain == <<"1","3","5">>

\* value: numbers, their decimal strings, fractions, and values that are not
\* usable positive numbers
DurationValues ==
  {NumI(n) : n \in DurationInts}
    \cup {Str(NatToStr(n)) : n \in DurationInts}
    \cup {NumV(Num(FALSE, n, f)) : n \in {0, 45, 1000, 135000}, f \in {500, 999}}
    \cup {Str(NatToStr(n) \o <<".">> \o FracStr(f)) :
            n \in {0, 45, 1000, 135000}, f \in {500, 999}}
    \cup {Undef, Str(<<>>), Str(<<"a","b","c">>), NumV(NaN), NumV(Num(TRUE, 5, 0)),
          Str(<<"-","5">>), Str(<<"0",".","0","0","0">>)}

DurationStrings == {Undef, Str(<<>>), Str(DsPlain), Str(DsColon), Str(DsColon2)}

DurationArgs == [value : DurationValues, durationStr3 : DurationStrings]

VP9 == <<"V","P","9">>
GoogleVP9 == <<"G","o","o","g","l","e"," ","V","P","9">>
High == <<"H","i","g","h">>
Avc1 == <<"a","v","c","1">>

CodecFormats == {Undef, Str(<<>>), Str(AVC), Str(HEVC), Str(MPEG4Visual), Str(AAC), Str(VP9)}
CodecInfos == {Undef, Str(GoogleVP9), Str(VP9), Str(AdvancedVideoCoding)}
CodecProfiles ==
  {Undef, Str(Base), Str(Main), Str(High), Str(<<"L","C">>),
   Str(<<"M","a","i","n"," ","1","0">>), Str(<<"V","i","d","e","o">>), Str(VP9)}
CodecIDs == {Undef, Str(Avc1)}

CodecTracks ==
  {NoTrack}
    \cup {Track(ty, [Format |-> f, Format_Information |-> i, Format_Profile |-> p,
                     CodecID |-> c]) :
            ty \in {"Video"}, f \in CodecFormats, i \in CodecInfos, p \in CodecProfiles,
            c \in CodecIDs}

MPEG4 == <<"M","P","E","G","-","4">>

GeneralTracks ==
  {Track("General", [Duration |-> d, Duration_String3 |-> s, Format |-> Str(MPEG4),
                     OverallBitRate |-> Str(<<"6","1","2","3","4","5","6">>),
                     OverallBitRate_Mode |-> Str(<<"V","B","R">>)]) :
     d \in {Undef, Str(<<"a","b","c">>), Str(<<"0">>), NumI(135000)},
     s \in {Undef, Str(DsColon)}}
    \cup {Track("General", [CodecID |-> Str(<<"i","s","o","m">>)])}

VideoTracks ==
  { Track("Video", [CodecID |-> Str(Avc1)]),
    Track("Video", [Width |-> Str(<<"1","9","2","0">>), Height |-> Str(<<"1","0","8","0">>),
                    BitRate |-> Str(<<"5","0","0","0","0","0","0">>),
                    BitRate_Mode |-> Str(<<"C","B","R">>),
                    FrameRate |-> Str(<<"2","9",".","9","7","0">>),
                    Duration |-> Str(<<"5","0","0","0">>),
                    Format |-> Str(AVC), Format_Profile |-> Str(High)]),
    Track("Video", [Width |-> NumI(3840), Height |-> NumI(2160),
                    FrameRate_Nominal |-> NumV(Num(FALSE, 23, 976)),
                    Format |-> Str(HEVC), Format_Profile |-> Str(Main)]),
    Track("Video", [Width |-> Str(<<"a","b","c">>), Height |-> Str(<<"7","2","0">>),
                    BitRate |-> Str(<<"a","b","c">>), FrameRate |-> Str(<<"a","b","c">>),
                    Duration |-> NumI(5000), Format |-> Str(VP9)]),
    Track("Video", [Width |-> Str(<<"6","4","0">>), Height |-> Str(<<"4","8","0">>),
                    Duration_String3 |-> Str(DsColon2), Format |-> Str(MPEG4Visual)]) }

AudioTracks ==
  {Track("Audio", [Duration |-> d, Duration_String3 |-> s, Format |-> Str(AAC),
                   Format_Profile |-> Str(<<"L","C">>)]) :
     d \in {Undef, Str(<<"4","5">>)}, s \in {Undef, Str(DsPlain)}}

OtherTracks ==
  {Track("Text", [Duration |-> d]) : d \in {Undef, NumI(7400000)}}

TrackMenu == GeneralTracks \cup VideoTracks \cup AudioTracks \cup OtherTracks

RECURSIVE SeqsUpTo(_, _)
SeqsUpTo(S, n) ==
  IF n = 0 THEN {<<>>}
  ELSE LET shorter == SeqsUpTo(S, n - 1)
       IN  shorter \cup {Append(q, x) : q \in {r \in shorter : Len(r) = n - 1}, x \in S}

\* the probing engine's results: no media object, or up to MaxTracks tracks
ProbeResults ==
  {[media |-> FALSE, track |-> <<>>]}
    \cup {[media |-> TRUE, track |-> q] : q \in SeqsUpTo(TrackMenu, MaxTracks)}

Files ==
  { [name |-> <<"a",".","m","p","4">>,
     lastModified |-> [year |-> 2024, month |-> 1, day |-> 5,
                       hour |-> 9, minute |-> 4, second |-> 30],
     size |-> [e |-> 1, hi |-> 1, lo |-> 512]],
    [name |-> <<"b",".","m","k","v">>,
     lastModified |-> [year |-> 2023, month |-> 12, day |-> 31,
                       hour |-> 23, minute |-> 59, second |-> 59],
     size |-> [e |-> 3, hi |-> 2, lo |-> 0]] }

\* the probe results the engine may return in the display-state specification
GoodProbe ==
  [media |-> TRUE,
   track |-> << Track("General", [Duration |-> NumI(135000), Format |-> Str(MPEG4)]),
                Track("Video", [Width |-> Str(<<"1","9","2","0">>),
                                Height |-> Str(<<"1","0","8","0">>),
                                Format |-> Str(AVC), Format_Profile |-> Str(High)]) >>]

AudioOnlyProbe ==
  [media |-> TRUE, track |-> << Track("Audio", [Format |-> Str(AAC)]) >>]

EngineResults == {GoodProbe, AudioOnlyProbe}

(***************************************************************************)
(* The App component: display state and the analyzeVideo invocations.      *)
(* calls[i] is the i-th invocation, in the order the invocations started:  *)
(* its file, where it stands (awaiting the factory, awaiting the probe,    *)
(* done), and, as history, what it wrote to the display state and which    *)
(* earlier invocations were still running when it started.                 *)
(***************************************************************************)
Null == <<>>

UIInit ==
  /\ isDragging = FALSE
  /\ metadata = Null
  /\ isAnalyzing = FALSE
  /\ error = Null
  /\ calls = <<>>

\* lines 115-117: analyzeVideo up to its first await
analyzeVideo(file) ==
  /\ Len(calls) < MaxAnalyses
  /\ isAnalyzing' = TRUE
  /\ error' = Null
  /\ metadata' = Null
  /\ calls' = Append(calls, [file |-> file, pc |-> "factory", outcome |-> <<"pending">>,
                             overlaps |-> {i \in 1..Len(calls) : calls[i].pc # "done"}])

\* lines 177-180
onDragOver ==
  /\ isDragging' = TRUE
  /\ UNCHANGED <<metadata, isAnalyzing, error, calls, fn, arg, ret>>

\* lines 182-184
onDragLeave ==
  /\ isDragging' = FALSE
  /\ UNCHANGED <<metadata, isAnalyzing, error, calls, fn, arg, ret>>

\* lines 186-191, a file among the dropped items
onDrop ==
  /\ isDragging' = FALSE
  /\ \E file \in Files : analyzeVideo(file)
  /\ UNCHANGED <<fn, arg, ret>>

\* lines 186-191, nothing dropped that is a file
onDropNoFile ==
  /\ isDragging' = FALSE
  /\ UNCHANGED <<metadata, isAnalyzing, error, calls, fn, arg, ret>>

\* lines 236-239
onChange ==
  /\ \E file \in Files : analyzeVideo(file)
  /\ UNCHANGED <<isDragging, fn, arg, ret>>

\* line 120: MediaInfoFactory resolves
FactoryResolved(i) ==
  /\ calls[i].pc = "factory"
  /\ calls' = [calls EXCEPT ![i].pc = "probing"]
  /\ UNCHANGED <<isDragging, metadata, isAnalyzing, error, fn, arg, ret>>

\* lines 169-174: the catch and finally blocks
Caught(i) ==
  /\ error' = <<"ProbeFailure">>
  /\ isAnalyzing' = FALSE
  /\ calls' = [calls EXCEPT ![i].pc = "done", ![i].outcome = <<"error", "ProbeFailure">>]
  /\ UNCHANGED <<isDragging, metadata, fn, arg, ret>>

\* line 120: MediaInfoFactory rejects
FactoryRejected(i) ==
  /\ calls[i].pc = "factory"
  /\ Caught(i)

\* line 129: analyzeData rejects
ProbeRejected(i) ==
  /\ calls[i].pc = "probing"
  /\ Caught(i)

\* lines 129-168, 172-174: analyzeData resolves; the record is assembled and shown
ProbeResolved(i) ==
  /\ calls[i].pc = "probing"
  /\ \E result \in EngineResults :
       LET out == Assemble(calls[i].file, result)
       IN  /\ IF out[1] = "metadata"
              THEN metadata' = <<out[2]>> /\ UNCHANGED error
              ELSE error' = <<out[2]>> /\ UNCHANGED metadata
           /\ calls' = [calls EXCEPT ![i].pc = "done", ![i].outcome = out]
  /\ isAnalyzing' = FALSE
  /\ UNCHANGED <<isDragging, fn, arg, ret>>

Init ==
  /\ UIInit
  /\ fn = "idle"
  /\ arg = <<>>
  /\ ret = <<>>

Next ==
  \/ onDragOver
  \/ onDragLeave
  \/ onDrop
  \/ onDropNoFile
  \/ onChange
  \/ \E i \in 1..Len(calls) : FactoryResolved(i)
  \/ \E i \in 1..Len(calls) : FactoryRejected(i)
  \/ \E i \in 1..Len(calls) : ProbeResolved(i)
  \/ \E i \in 1..Len(calls) : ProbeRejected(i)

Spec == Init /\ [][Next]_vars

(***************************************************************************)
(* The normalizers on their own: the input is drawn in the initial state   *)
(* and one action applies the function to it.                              *)
(***************************************************************************)
InitBytes == UIInit /\ fn = "idle" /\ arg \in ByteCounts /\ ret = <<>>

CallFormatBytes ==
  /\ fn = "idle"
  /\ fn' = "formatBytes"
  /\ ret' = formatBytes(arg)
  /\ UNCHANGED <<arg, uiVars>>

SpecBytes == InitBytes /\ [][CallFormatBytes]_vars

InitDuration == UIInit /\ fn = "idle" /\ arg \in DurationArgs /\ ret = <<>>

CallFormatDuration ==
  /\ fn = "idle"
  /\ fn' = "formatDuration"
  /\ ret' = formatDuration(arg.value, arg.durationStr3)
  /\ UNCHANGED <<arg, uiVars>>

SpecDuration == InitDuration /\ [][CallFormatDuration]_vars

InitCodec == UIInit /\ fn = "idle" /\ arg \in CodecTracks /\ ret = <<>>

CallGetDetailedCodec ==
  /\ fn = "idle"
  /\ fn' = "getDetailedCodec"
  /\ ret' = getDetailedCodec(arg)
  /\ UNCHANGED <<arg, uiVars>>

SpecCodec == InitCodec /\ [][CallGetDetailedCodec]_vars

InitAssemble ==
  /\ UIInit
  /\ fn = "idle"
  /\ arg \in [file : Files, result : ProbeResults]
  /\ ret = <<>>

CallAssemble ==
  /\ fn = "idle"
  /\ fn' = "assemble"
  /\ ret' = Assemble(arg.file, arg.result)
  /\ UNCHANGED <<arg, uiVars>>

SpecAssemble == InitAssemble /\ [][CallAssemble]_vars

(***************************************************************************)
(* Properties.                                                             *)
(***************************************************************************)
EndsWith(s, suffix) ==
  Len(s) >= Len(suffix) /\ SubSeq(s, Len(s) - Len(suffix) + 1, Len(s)) = suffix

DropLast(s, n) == SubSeq(s, 1, Len(s) - n)

\* digits, with at most one decimal point between two of them
IsDecimal(s) ==
  /\ s # <<>>
  /\ \A i \in 1..Len(s) : IsDigit(s[i]) \/ s[i] = "."
  /\ IsDigit(s[1]) /\ IsDigit(s[Len(s)])
  /\ Cardinality({i \in 1..Len(s) : s[i] = "."}) <= 1

IsNatural(s) == s # <<>> /\ \A i \in 1..Len(s) : IsDigit(s[i])

\* a field value that is a positive number, or the decimal string of one
PositiveNumeric(v) ==
  \/ v.kind = "num" /\ Positive(v.n)
  \/ v.kind = "str" /\ IsDecimal(v.s) /\ \E i \in 1..Len(v.s) : v.s[i] \notin {"0", "."}

HasType(result, type) ==
  result.media /\ \E i \in 1..Len(result.track) : result.track[i].type = type

InFlight == {i \in 1..Len(calls) : calls[i].pc # "done"}

\* the display state an invocation's outcome alone would leave
Shown(outcome) ==
  IF outcome[1] = "metadata"
  THEN [metadata |-> <<outcome[2]>>, error |-> Null]
  ELSE [metadata |-> Null, error |-> <<outcome[2]>>]

\* C1: no display state holds both a metadata record and an error: a failed
\* analysis leaves the metadata cleared.
C1_NoMetadataWithError == ~(metadata # Null /\ error # Null)

\* C2: when analysis b was requested while analysis a was still running, and no
\* analysis was requested after b, then once all have completed the display
\* state is b's outcome.
C2_LatestSupersedes ==
  \A b \in 1..Len(calls) :
    (/\ b = Len(calls)
     /\ calls[b].overlaps # {}
     /\ InFlight = {})
    => <<metadata, error>> = <<Shown(calls[b].outcome).metadata, Shown(calls[b].outcome).error>>

\* C10: isAnalyzing is true exactly while some analyzeVideo invocation is in flight.
C10_AnalyzingWhileInFlight == isAnalyzing <=> (InFlight # {})

\* C7: formatSize gives "0 Bytes" for 0 and otherwise a string ending in the unit
\* of index min(floor(log1024(bytes)), 4), one of Bytes, KB, MB, GB, TB.
C7_UnitClamped ==
  fn = "formatBytes" =>
    IF arg = ZeroBytes THEN ret = <<"0"," ","B","y","t","e","s">>
    ELSE LET i == IF arg.e < 4 THEN arg.e ELSE 4
         IN  EndsWith(ret, <<" ">> \o sizes[i + 1])

\* C3: assembly fails with NoMediaTrack exactly when the probe has neither a
\* General nor a Video track (no media object, no tracks, audio only); with a
\* General track and no Video track it succeeds and the resolution, resolution
\* class, frame rate and video codec are all the "unknown" sentinel.
C3_NoMediaTrackExactly ==
  fn = "assemble" =>
    /\ (ret = <<"error", "NoMediaTrack">>)
         <=> ~(HasType(arg.result, "General") \/ HasType(arg.result, "Video"))
    /\ (ret[1] = "metadata")
         <=> (HasType(arg.result, "General") \/ HasType(arg.result, "Video"))
    /\ (HasType(arg.result, "General") /\ ~HasType(arg.result, "Video"))
         => /\ ret[1] = "metadata"
            /\ ret[2].resolution = Unknown
            /\ ret[2].resolutionLabel = Unknown
            /\ ret[2].frameRate = Unknown
            /\ ret[2].videoCodec = Unknown

C3_Witness ==
  /\ fn = "assemble"
  /\ HasType(arg.result, "General") /\ ~HasType(arg.result, "Video")
  /\ HasType(arg.result, "Audio")
  /\ ret[1] = "metadata"
  /\ ret[2].frameRate = Unknown
  /\ ret[2].audioCodec # Unknown

\* a formatted value: <what>, then the unit
IsQuantity(s, unit) == EndsWith(s, unit) /\ IsDecimal(DropLast(s, Len(unit)))

IsResolution(s) ==
  \E i \in 1..Len(s) :
    /\ IsNatural(SubSeq(s, 1, i))
    /\ SubSeq(s, i + 1, i + 3) = <<" ","x"," ">>
    /\ IsNatural(SubSeq(s, i + 4, Len(s)))

ResolutionLabels ==
  {<<"4","K">>, <<"2","K">>, <<"F","u","l","l","H","D">>, <<"H","D">>, <<"S","D">>}

\* C4: for a probe with a General or a Video track, whatever fields are absent
\* or unparseable, assembly succeeds and every field of the record is non-empty
\* and is a formatted value or exactly the "unknown" sentinel.
C4_EveryFieldValueOrUnknown ==
  (fn = "assemble" /\ (HasType(arg.result, "General") \/ HasType(arg.result, "Video"))) =>
    /\ ret[1] = "metadata"
    /\ \A f \in DOMAIN ret[2] : ret[2][f] # <<>>
    /\ ret[2].resolution = Unknown \/ IsResolution(ret[2].resolution)
    /\ ret[2].resolutionLabel \in ResolutionLabels \cup {Unknown}
    /\ ret[2].bitRate = Unknown \/ IsQuantity(ret[2].bitRate, <<" ","M","b","p","s">>)
    /\ ret[2].frameRate = Unknown \/ IsQuantity(ret[2].frameRate, <<" ","f","p","s">>)
    /\ \/ ret[2].duration = Unknown
       \/ \A i \in 1..Len(ret[2].duration) :
            IsDigit(ret[2].duration[i]) \/ ret[2].duration[i] = ":"

\* the preformatted duration string, General's before Video's before Audio's
PreformattedDuration(result) ==
  LET pick(type) ==
        IF HasType(result, type)
        THEN (CHOOSE i \in 1..Len(result.track) :
                /\ result.track[i].type = type
                /\ \A j \in 1..(i - 1) : result.track[j].type # type)
        ELSE 0
      ds(type) == IF pick(type) = 0 THEN Undef
                  ELSE Get(result.track[pick(type)], "Duration_String3")
  IN  IF Truthy(ds("General")) THEN ds("General")
      ELSE IF Truthy(ds("Video")) THEN ds("Video")
      ELSE ds("Audio")

UsablePreformatted(v) == v.kind = "str" /\ \E i \in 1..Len(v.s) : v.s[i] = ":"

\* C5: when no preformatted duration string is usable and some track of the
\* probe reports a positive numeric Duration, the duration field is not "unknown".
C5_DurationFoundWhenReported ==
  (/\ fn = "assemble"
   /\ ret[1] = "metadata"
   /\ ~UsablePreformatted(PreformattedDuration(arg.result))
   /\ \E i \in 1..Len(arg.result.track) :
        PositiveNumeric(Get(arg.result.track[i], "Duration")))
  => ret[2].duration # Unknown

\* the number a positive numeric field value stands for
ValueOf(v) == IF v.kind = "num" THEN v.n ELSE ParseFloatStr(v.s)

\* the spec's rendering of T seconds
DurationText(T) ==
  LET h == T \div 3600
      m == (T - h * 3600) \div 60
      s == T - h * 3600 - m * 60
  IN  IF T >= 3600 THEN NatToStr(h) \o <<":">> \o Pad2(m) \o <<":">> \o Pad2(s)
      ELSE NatToStr(m) \o <<":">> \o Pad2(s)

\* C6: for a positive raw duration n and no preformatted string, the result is
\* T = floor(n/1000) seconds if that is >= 1 and floor(n) seconds otherwise,
\* rendered "H:MM:SS" when T >= 3600 and "M:SS" otherwise;
\* 135000 -> "2:15", 45 -> "0:45", 7400000 -> "2:03:20".
C6_DurationRendering ==
  (/\ fn = "formatDuration"
   /\ ~UsablePreformatted(arg.durationStr3)
   /\ PositiveNumeric(arg.value))
  => LET n == ValueOf(arg.value)
         T == IF n.int \div 1000 >= 1 THEN n.int \div 1000 ELSE n.int
     IN  /\ ret = DurationText(T)
         /\ n = Num(FALSE, 135000, 0) => ret = <<"2",":","1","5">>
         /\ n = Num(FALSE, 45, 0) => ret = <<"0",":","4","5">>
         /\ n = Num(FALSE, 7400000, 0) => ret = <<"2",":","0","3",":","2","0">>

C6_Witness ==
  /\ fn = "formatDuration"
  /\ arg.value = Str(<<"7","4","0","0","0","0","0">>)
  /\ arg.durationStr3 = Str(DsPlain)
  /\ ret = <<"2",":","0","3",":","2","0">>

\* the track's field as a string, empty when absent
FieldText(track, name) ==
  IF Get(track, name).kind = "str" THEN Get(track, name).s ELSE <<>>

CodecTable ==
  { <<AVC, AdvancedVideoCoding, H264>>,
    <<HEVC, HighEfficiencyVideoCoding, H265>>,
    <<MPEG4Visual, MPEG4Part2, Visual>>,
    <<AAC, AdvancedAudioCoding, MPEG4AAC>> }

InCodecTable(format) == \E row \in CodecTable : row[1] = format

\* "Long" alone when the names agree, "Long(Short)" in full-width brackets otherwise
ComposedName(long, short) ==
  IF long = short THEN long ELSE long \o <<"U+FF08">> \o short \o <<"U+FF09">>

\* " [profile]" appended exactly when the profile is present, is neither Base
\* nor Main, and does not occur in the composed string
Suffixed(composed, profile) ==
  IF /\ profile # <<>>
     /\ profile \notin {Base, Main}
     /\ ~\E i \in 0..(Len(composed) - Len(profile)) :
           \A j \in 1..Len(profile) : composed[i + j] = profile[j]
  THEN composed \o <<" ","[">> \o profile \o <<"]">>
  ELSE composed

\* C8: a present track whose format code is absent or outside the table and that
\* has no Format_Information resolves to its CodecID when present and to
\* "unknown" otherwise, whatever its profile; an absent track resolves to "unknown".
C8_RawCodecFallback ==
  fn = "getDetailedCodec" =>
    /\ ~Found(arg) => ret = Unknown
    /\ (/\ Found(arg)
        /\ ~InCodecTable(FieldText(arg, "Format"))
        /\ FieldText(arg, "Format_Information") = <<>>)
       => ret = (IF FieldText(arg, "CodecID") # <<>> THEN FieldText(arg, "CodecID")
                 ELSE Unknown)

\* C9 as stated: a code outside the table has one default name (its
\* Format_Information, or the code itself) as both long and short name.
C9_DefaultNameAsBoth ==
  (fn = "getDetailedCodec" /\ Found(arg) /\ FieldText(arg, "Format") # <<>>) =>
    LET format == FieldText(arg, "Format")
        info == FieldText(arg, "Format_Information")
        profile == FieldText(arg, "Format_Profile")
    IN  IF InCodecTable(format)
        THEN \E row \in CodecTable :
               row[1] = format /\ ret = Suffixed(ComposedName(row[2], row[3]), profile)
        ELSE \/ ret = Suffixed(ComposedName(format, format), profile)
             \/ info # <<>> /\ ret = Suffixed(ComposedName(info, info), profile)

\* C9, amended: for a track with a non-empty format code the name pair is the
\* table's (long, short) pair for AVC, HEVC, MPEG-4 Visual and AAC; for a code
\* outside the table the long name is Format_Information when present and the
\* code otherwise, and the short name is the code.  The composed string is the
\* long name alone when the two agree and "Long(Short)" otherwise, and
\* " [profile]" is appended exactly when the profile is present, is neither
\* Base nor Main and is not a substring of the composed string.
C9_CodecReference ==
  (fn = "getDetailedCodec" /\ Found(arg) /\ FieldText(arg, "Format") # <<>>) =>
    LET format == FieldText(arg, "Format")
        info == FieldText(arg, "Format_Information")
        profile == FieldText(arg, "Format_Profile")
    IN  /\ IF InCodecTable(format)
           THEN \E row \in CodecTable :
                  row[1] = format /\ ret = Suffixed(ComposedName(row[2], row[3]), profile)
           ELSE ret = Suffixed(ComposedName(IF info # <<>> THEN info ELSE format, format),
                               profile)
        /\ (format = AVC /\ profile = High)
             => ret = AdvancedVideoCoding \o <<"U+FF08">> \o H264 \o <<"U+FF09">>
                        \o <<" ","[","H","i","g","h","]">>
        /\ (format = AVC /\ profile = Main)
             => ret = AdvancedVideoCoding \o <<"U+FF08">> \o H264 \o <<"U+FF09">>

C9_Witness ==
  /\ fn = "getDetailedCodec"
  /\ FieldText(arg, "Format") = VP9
  /\ FieldText(arg, "Format_Information") = GoogleVP9
  /\ FieldText(arg, "Format_Profile") = High
  /\ ret = GoogleVP9 \o <<"U+FF08">> \o VP9 \o <<"U+FF09">> \o <<" ","[","H","i","g","h","]">>

====
